---- MODULE Spec2Model ----
(***************************************************************************)
(* CareerFlow: the LinkedIn saved-jobs extraction pipeline                 *)
(* (app/services/linkedin_parser.py), the import of its result into the    *)
(* jobs table (app/services/job_service.py, app/models/job.py) and the     *)
(* upload controller that chains them (app/main.py).                       *)
(*                                                                         *)
(* A Python str is a sequence of text pieces ("tokens"); every piece is a  *)
(* TLA+ string standing for exactly that run of characters, so Len(piece)  *)
(* is its Python length.  The pieces are chosen so that every string test  *)
(* of the code (startswith, strip, in, lower, the regular expressions)     *)
(* falls on piece boundaries.                                              *)
(***************************************************************************)
EXTENDS Integers, Sequences, FiniteSets, TLC

(***************************************************************************)
(* Python values                                                           *)
(***************************************************************************)
None == [t |-> "none"]
PyStr(s) == [t |-> "str", s |-> s]
PyNum(n) == [t |-> "num", n |-> n]
PyBool(b) == [t |-> "bool", b |-> b]
PyList(items) == [t |-> "list", items |-> items]
\* a dict keeps insertion order: a sequence of <<key, value>> with distinct keys
PyDict(kv) == [t |-> "dict", kv |-> kv]

IsStr(v) == v.t = "str"
IsDict(v) == v.t = "dict"
IsList(v) == v.t = "list"

\* bool(v)
Truthy(v) ==
  CASE v.t = "none" -> FALSE
    [] v.t = "str" -> Len(v.s) > 0
    [] v.t = "num" -> v.n # 0
    [] v.t = "bool" -> v.b
    [] v.t = "list" -> Len(v.items) > 0
    [] v.t = "dict" -> Len(v.kv) > 0

\* key in d
HasKey(d, k) == \E i \in 1..Len(d.kv) : d.kv[i][1] = k

\* d[k], for a key that is present
Item(d, k) == d.kv[CHOOSE i \in 1..Len(d.kv) : d.kv[i][1] = k][2]

\* d.get(k)
Get(d, k) == IF HasKey(d, k) THEN Item(d, k) ELSE None

(***************************************************************************)
(* Text pieces and the str methods the code uses                           *)
(***************************************************************************)
SP == " "
QUOTE == "\""
\* "https://www.linkedin.com" is the two pieces "https" and "://www.linkedin.com"
SCHEME == "https"
HOST == "://www.linkedin.com"
ORIGIN == <<SCHEME, HOST>>
LABEL == "navigationUrl:"
MARKER == "com.linkedin.common.Url"

Whitespace == {SP}

RECURSIVE LStrip(_)
LStrip(s) == IF s # <<>> /\ Head(s) \in Whitespace THEN LStrip(Tail(s)) ELSE s

RECURSIVE RStrip(_)
RStrip(s) ==
  IF s # <<>> /\ s[Len(s)] \in Whitespace THEN RStrip(SubSeq(s, 1, Len(s) - 1)) ELSE s

\* s.strip()
Strip(s) == RStrip(LStrip(s))

\* one piece of html.unescape / str.lower
UnescapePiece(p) ==
  CASE p = "&quot;" -> QUOTE
    [] p = "&amp;" -> "&"
    [] OTHER -> p

LowerPiece(p) ==
  CASE p = "String" -> "string"
    [] p = "NULL" -> "null"
    [] OTHER -> p

\* html.unescape(s)
HtmlUnescape(s) == [i \in 1..Len(s) |-> UnescapePiece(s[i])]

\* s.lower()
Lower(s) == [i \in 1..Len(s) |-> LowerPiece(s[i])]

\* s.startswith(p), p one piece
StartsWith(s, p) == s # <<>> /\ s[1] = p

\* s.replace(p, ""), p one piece
RECURSIVE Remove(_, _)
Remove(s, p) ==
  IF s = <<>> THEN <<>>
  ELSE IF Head(s) = p THEN Remove(Tail(s), p)
  ELSE <<Head(s)>> \o Remove(Tail(s), p)

\* p in s, p one piece
Contains(s, p) == \E i \in 1..Len(s) : s[i] = p

(***************************************************************************)
(* LinkedInHtmlParser._normalize_link                                      *)
(***************************************************************************)
possible_keys == <<"url", "navigationUrl", "href">>

\* the for/else over possible_keys: the first sub-key holding a str, or None
RECURSIVE FirstStrSubKey(_, _)
FirstStrSubKey(link, keys) ==
  IF keys = <<>> THEN None
  ELSE IF HasKey(link, Head(keys)) /\ IsStr(Item(link, Head(keys)))
       THEN Item(link, Head(keys))
       ELSE FirstStrSubKey(link, Tail(keys))

MakeAbsolute(s) == IF StartsWith(s, "/") THEN ORIGIN \o s ELSE s

StripLabel(s) == IF StartsWith(s, LABEL) THEN Strip(Remove(s, LABEL)) ELSE s

_normalize_link(link) ==
  IF ~Truthy(link) THEN None
  ELSE LET l1 == IF IsDict(link) THEN FirstStrSubKey(link, possible_keys) ELSE link
       IN IF ~IsStr(l1) THEN None
          ELSE PyStr(StripLabel(MakeAbsolute(Strip(HtmlUnescape(l1.s)))))

(***************************************************************************)
(* LinkedInHtmlParser._extract_title_from_node / _extract_company_from_node*)
(***************************************************************************)
\* (node.get(k) or {}).get(sub) if isinstance(node.get(k), dict) else None
NestedGet(node, k, sub) ==
  IF IsDict(Get(node, k))
  THEN (IF Truthy(Get(node, k)) THEN Get(Get(node, k), sub) ELSE None)
  ELSE None

\* the loop over candidates: the first non-blank str, stripped, or None
RECURSIVE FirstNonBlank(_)
FirstNonBlank(candidates) ==
  IF candidates = <<>> THEN None
  ELSE LET c == Head(candidates)
       IN IF Truthy(c) /\ IsStr(c) /\ Strip(c.s) # <<>>
          THEN PyStr(Strip(c.s))
          ELSE FirstNonBlank(Tail(candidates))

_extract_title_from_node(node) ==
  FirstNonBlank(<< Get(node, "title"),
                   NestedGet(node, "titleText", "text"),
                   NestedGet(node, "primaryText", "text"),
                   NestedGet(node, "headline", "text"),
                   Get(node, "name") >>)

_extract_company_from_node(node) ==
  FirstNonBlank(<< Get(node, "companyName"),
                   NestedGet(node, "secondaryTitleText", "text"),
                   NestedGet(node, "subtitle", "text"),
                   NestedGet(node, "company", "name") >>)

\* x or None
OrNone(v) == IF Truthy(v) THEN v ELSE None

\* the raw candidate dict {"title": ..., "company": ..., "link": ...}
RawJob(title, company, link) == [title |-> title, company |-> company, link |-> link]

(***************************************************************************)
(* LinkedInHtmlParser._recursive_search_for_job_nodes                      *)
(***************************************************************************)
possible_url_fields ==
  <<"navigationUrl", "navigationUrlForTracking", "navigationUrlForJob", "jobUrl", "url">>

container_keys == <<"jobPosting", "jobCard", "job", "jobPostings", "item", "elements">>

\* the body of the loop over possible_url_fields for one field
FieldCandidates(node, field) ==
  IF HasKey(node, field) /\ Truthy(Item(node, field))
  THEN LET link == Item(node, field)
           link_normal == _normalize_link(link)
       IN IF ~Truthy(link_normal) \/ IsDict(link)
          THEN <<>>
          ELSE << RawJob(OrNone(_extract_title_from_node(node)),
                         OrNone(_extract_company_from_node(node)),
                         link_normal) >>
  ELSE <<>>

\* the loop over possible_url_fields (it has no break)
RECURSIVE UrlFieldLoop(_, _)
UrlFieldLoop(node, fields) ==
  IF fields = <<>> THEN <<>>
  ELSE FieldCandidates(node, Head(fields)) \o UrlFieldLoop(node, Tail(fields))

RECURSIVE _recursive_search_for_job_nodes(_)

\* the loop over the container keys
RECURSIVE ContainerLoop(_, _)
ContainerLoop(node, keys) ==
  IF keys = <<>> THEN <<>>
  ELSE (IF HasKey(node, Head(keys)) /\ Truthy(Item(node, Head(keys)))
        THEN _recursive_search_for_job_nodes(Item(node, Head(keys)))
        ELSE <<>>)
       \o ContainerLoop(node, Tail(keys))

\* for value in node.values() / for item in node
RECURSIVE WalkEach(_)
WalkEach(values) ==
  IF values = <<>> THEN <<>>
  ELSE _recursive_search_for_job_nodes(Head(values)) \o WalkEach(Tail(values))

\* a variant without the loop over node.values(): only the children under
\* the container keys are walked
DictValues_NoChildren(node) == <<>>

\* node.values()
DictValues(node) == [i \in 1..Len(node.kv) |-> node.kv[i][2]]

\* a variant that runs the loop over node.values() before the loop over the
\* container keys
_recursive_search_for_job_nodes_ValuesFirst(node) ==
  IF IsDict(node)
  THEN UrlFieldLoop(node, possible_url_fields)
       \o WalkEach(DictValues(node))
       \o ContainerLoop(node, container_keys)
  ELSE IF IsList(node) THEN WalkEach(node.items)
  ELSE <<>>

_recursive_search_for_job_nodes(node) ==
  IF IsDict(node)
  THEN UrlFieldLoop(node, possible_url_fields)
       \o ContainerLoop(node, container_keys)
       \o WalkEach(DictValues(node))
  ELSE IF IsList(node) THEN WalkEach(node.items)
  ELSE <<>>

(***************************************************************************)
(* json.loads on a text of pieces.  The structural pieces of JSON are      *)
(* "{", "}", "[", "]", ":", ",", the quote and the literals; a JSON string *)
(* is a quote, pieces other than the quote, and a quote.                   *)
(***************************************************************************)
DigitPieces == {"0", "7"}

NumOf(p) == IF p = "7" THEN 7 ELSE 0

\* the characters of a key, as one TLA+ string
RECURSIVE JoinPieces(_)
JoinPieces(s) == IF s = <<>> THEN "" ELSE Head(s) \o JoinPieces(Tail(s))

\* d[k] = v on an insertion-ordered dict
DictSet(kv, k, v) ==
  IF \E i \in 1..Len(kv) : kv[i][1] = k
  THEN [i \in 1..Len(kv) |-> IF kv[i][1] = k THEN <<k, v>> ELSE kv[i]]
  ELSE Append(kv, <<k, v>>)

RECURSIVE SkipWs(_, _)
SkipWs(text, i) ==
  IF i <= Len(text) /\ text[i] \in Whitespace THEN SkipWs(text, i + 1) ELSE i

\* the index of the first quote at or after i, or 0
RECURSIVE NextQuote(_, _)
NextQuote(text, i) ==
  IF i > Len(text) THEN 0
  ELSE IF text[i] = QUOTE THEN i
  ELSE NextQuote(text, i + 1)

ParseFail == [ok |-> FALSE, val |-> None, next |-> 0]
Parsed(v, n) == [ok |-> TRUE, val |-> v, next |-> n]

RECURSIVE ParseValue(_, _)
RECURSIVE ParseElements(_, _, _)
RECURSIVE ParseMembers(_, _, _)

\* a JSON string starting at the quote text[i]
ParseString(text, i) ==
  LET q == NextQuote(text, i + 1)
  IN IF q = 0 THEN ParseFail ELSE Parsed(PyStr(SubSeq(text, i + 1, q - 1)), q + 1)

\* the elements of an array after "[" or ",", items parsed so far
ParseElements(text, i, items) ==
  LET r == ParseValue(text, i)
  IN IF ~r.ok THEN ParseFail
     ELSE LET j == SkipWs(text, r.next)
          IN IF j > Len(text) THEN ParseFail
             ELSE IF text[j] = "," THEN ParseElements(text, j + 1, Append(items, r.val))
             ELSE IF text[j] = "]" THEN Parsed(PyList(Append(items, r.val)), j + 1)
             ELSE ParseFail

\* the members of an object after "{" or ",", members parsed so far
ParseMembers(text, i, kv) ==
  LET k == SkipWs(text, i)
  IN IF k > Len(text) \/ text[k] # QUOTE THEN ParseFail
     ELSE LET key == ParseString(text, k)
          IN IF ~key.ok THEN ParseFail
             ELSE LET c == SkipWs(text, key.next)
                  IN IF c > Len(text) \/ text[c] # ":" THEN ParseFail
                     ELSE LET r == ParseValue(text, c + 1)
                          IN IF ~r.ok THEN ParseFail
                             ELSE LET j == SkipWs(text, r.next)
                                      kv2 == DictSet(kv, JoinPieces(key.val.s), r.val)
                                  IN IF j > Len(text) THEN ParseFail
                                     ELSE IF text[j] = "," THEN ParseMembers(text, j + 1, kv2)
                                     ELSE IF text[j] = "}" THEN Parsed(PyDict(kv2), j + 1)
                                     ELSE ParseFail

ParseValue(text, i0) ==
  LET i == SkipWs(text, i0)
  IN IF i > Len(text) THEN ParseFail
     ELSE CASE text[i] = "null" -> Parsed(None, i + 1)
            [] text[i] = "true" -> Parsed(PyBool(TRUE), i + 1)
            [] text[i] = "false" -> Parsed(PyBool(FALSE), i + 1)
            [] text[i] \in DigitPieces -> Parsed(PyNum(NumOf(text[i])), i + 1)
            [] text[i] = QUOTE -> ParseString(text, i)
            [] text[i] = "[" ->
                 (LET j == SkipWs(text, i + 1)
                  IN IF j <= Len(text) /\ text[j] = "]"
                     THEN Parsed(PyList(<<>>), j + 1)
                     ELSE ParseElements(text, i + 1, <<>>))
            [] text[i] = "{" ->
                 (LET j == SkipWs(text, i + 1)
                  IN IF j <= Len(text) /\ text[j] = "}"
                     THEN Parsed(PyDict(<<>>), j + 1)
                     ELSE ParseMembers(text, i + 1, <<>>))
            [] OTHER -> ParseFail

\* json.loads(text): the value, or a raised JSONDecodeError (ok = FALSE)
json_loads(text) ==
  LET r == ParseValue(text, 1)
  IN IF r.ok /\ SkipWs(text, r.next) = Len(text) + 1
     THEN [ok |-> TRUE, val |-> r.val]
     ELSE [ok |-> FALSE, val |-> None]

\* _try_parse_json_and_extract_jobs
_try_parse_json_and_extract_jobs(text) ==
  LET data == json_loads(text)
  IN IF ~data.ok THEN <<>> ELSE _recursive_search_for_job_nodes(data.val)

(***************************************************************************)
(* The regular expressions, read on pieces.  In the texts of this model a  *)
(* piece with an inner capital letter (a JSON key such as companyName)     *)
(* stands between quotes, no word piece other than "at" contains the       *)
(* letters "at" before a capital, and a piece that is not a word piece     *)
(* begins with a character outside [A-Za-z0-9&\-\s] wherever it follows a *)
(* word or a blank, so a match starts and ends on piece boundaries.        *)
(***************************************************************************)
\* the radius of the window around a match, in characters
WINDOW_RADIUS == 300

\* a run of WINDOW_RADIUS characters ">"
PAD == "<filler>"

\* what is left of a piece the window cuts through
CUT == "<cut>"

PieceLen(p) == IF p = PAD THEN WINDOW_RADIUS ELSE Len(p)

\* len(text)
RECURSIVE TextLen(_)
TextLen(text) == IF text = <<>> THEN 0 ELSE PieceLen(Head(text)) + TextLen(Tail(text))

\* the character offset at which piece i begins (i may be Len(text) + 1)
Offset(text, i) == TextLen(SubSeq(text, 1, i - 1))

Max(a, b) == IF a >= b THEN a ELSE b
Min(a, b) == IF a <= b THEN a ELSE b

\* text[lo:hi] for character offsets lo <= hi
Slice(text, lo, hi) ==
  LET Inside(j) == Offset(text, j) >= lo /\ Offset(text, j + 1) <= hi
      Touches(j) == Offset(text, j + 1) > lo /\ Offset(text, j) < hi
      kept == {j \in 1..Len(text) : Touches(j)}
      first == CHOOSE j \in kept : \A k \in kept : j <= k
  IN IF kept = {} THEN <<>>
     ELSE [n \in 1..Cardinality(kept) |->
             IF Inside(first + n - 1) THEN text[first + n - 1] ELSE CUT]

\* JOB_URL_REGEX: https?://www\.linkedin\.com/jobs/view/[0-9]+[^\s"'>]*, IGNORECASE
SchemePieces == {"https", "http", "HTTPS"}
HostPieces == {HOST, "://WWW.LINKEDIN.COM"}
JobPathPieces == {"jobs/view/1", "jobs/view/2"}
\* the pieces that begin with a character of [\s"'>]
UrlStopPieces == {SP, QUOTE, "'", ">", PAD}

JobUrlAt(text, i) ==
  /\ i + 3 <= Len(text)
  /\ text[i] \in SchemePieces
  /\ text[i + 1] \in HostPieces
  /\ text[i + 2] = "/"
  /\ text[i + 3] \in JobPathPieces

\* the index after the greedy tail [^\s"'>]* that starts at i
RECURSIVE UrlEnd(_, _)
UrlEnd(text, i) ==
  IF i <= Len(text) /\ text[i] \notin UrlStopPieces THEN UrlEnd(text, i + 1) ELSE i

\* PLAIN_TITLE_REGEX / PLAIN_COMPANY_REGEX: "name"\s*:\s*"([^"]{3,200})", IGNORECASE
TitleKeyPieces == {"title", "Title"}
CompanyKeyPieces == {"companyName", "companyname"}

\* the content of the group when the field pattern matches at i, else None
PlainFieldAt(w, i, names) ==
  IF ~(i + 2 <= Len(w) /\ w[i] = QUOTE /\ w[i + 1] \in names /\ w[i + 2] = QUOTE)
  THEN None
  ELSE LET c == SkipWs(w, i + 3)
       IN IF c > Len(w) \/ w[c] # ":" THEN None
          ELSE LET q1 == SkipWs(w, c + 1)
               IN IF q1 > Len(w) \/ w[q1] # QUOTE THEN None
                  ELSE LET q2 == NextQuote(w, q1 + 1)
                           content == SubSeq(w, q1 + 1, q2 - 1)
                       IN IF q2 = 0 THEN None
                          ELSE IF TextLen(content) >= 3 /\ TextLen(content) <= 200
                               THEN PyStr(content)
                               ELSE None

\* regex.search: the leftmost match at or after i
RECURSIVE PlainFieldSearch(_, _, _)
PlainFieldSearch(w, i, names) ==
  IF i > Len(w) THEN None
  ELSE IF PlainFieldAt(w, i, names) # None THEN PlainFieldAt(w, i, names)
  ELSE PlainFieldSearch(w, i + 1, names)

\* the heuristic patterns:
\*   ([A-Z][A-Za-z0-9&\-\s]{3,60})\s*(?:at|@)\s*([A-Z][A-Za-z0-9&\-\s]{2,60})
\*   (?:at|@)\s*([A-Z][A-Za-z0-9&\-\s]{2,60})
\* the pieces that are not made of [A-Za-z0-9&\-] alone
NonWordPieces == {SP, QUOTE, "'", ">", "{", "}", "[", "]", ":", ",", "/", "?", "@",
                  HOST, "://WWW.LINKEDIN.COM", "jobs/view/1", "jobs/view/2",
                  LABEL, MARKER, PAD, CUT, "&quot;", "&amp;"}
\* the word pieces that begin with a capital letter
CapPieces == {"Eng", "Ops", "Acme", "Globex", "String", "NULL", "Title", "HTTPS"}
AtPieces == {"at", "@"}

\* the index after the longest run of [A-Za-z0-9&\-\s] pieces that starts at i
RECURSIVE PhraseEnd(_, _)
PhraseEnd(w, i) ==
  IF i <= Len(w) /\ (w[i] \notin NonWordPieces \/ w[i] \in Whitespace) THEN PhraseEnd(w, i + 1) ELSE i

\* [A-Z][A-Za-z0-9&\-\s]{2,60} at m: the greedy phrase, or None
CapPhraseAt(w, m) ==
  IF m > Len(w) \/ w[m] \notin CapPieces THEN None
  ELSE LET ends == {e \in (m + 1)..PhraseEnd(w, m) :
                      TextLen(SubSeq(w, m, e - 1)) >= 3 /\ TextLen(SubSeq(w, m, e - 1)) <= 61}
       IN IF ends = {} THEN None
          ELSE PyStr(SubSeq(w, m, (CHOOSE e \in ends : \A f \in ends : f <= e) - 1))

\* (?:at|@)\s*(phrase) at k
AtPhraseAt(w, k) ==
  IF k > Len(w) \/ w[k] \notin AtPieces THEN None ELSE CapPhraseAt(w, SkipWs(w, k + 1))

\* the first group when the title heuristic matches at i: the longest phrase
\* that leaves an "at" and a capitalised phrase behind it
AltTitleAt(w, i) ==
  IF i > Len(w) \/ w[i] \notin CapPieces THEN None
  ELSE LET ends == {e \in (i + 1)..PhraseEnd(w, i) :
                      /\ TextLen(SubSeq(w, i, e - 1)) >= 4
                      /\ TextLen(SubSeq(w, i, e - 1)) <= 61
                      /\ AtPhraseAt(w, SkipWs(w, e)) # None}
       IN IF ends = {} THEN None
          ELSE PyStr(SubSeq(w, i, (CHOOSE e \in ends : \A f \in ends : f <= e) - 1))

RECURSIVE AltTitleSearch(_, _)
AltTitleSearch(w, i) ==
  IF i > Len(w) THEN None
  ELSE IF AltTitleAt(w, i) # None THEN AltTitleAt(w, i)
  ELSE AltTitleSearch(w, i + 1)

RECURSIVE AltCompanySearch(_, _)
AltCompanySearch(w, k) ==
  IF k > Len(w) THEN None
  ELSE IF AtPhraseAt(w, k) # None THEN AtPhraseAt(w, k)
  ELSE AltCompanySearch(w, k + 1)

\* m.group(1).strip()
Stripped(v) == PyStr(Strip(v.s))

_extract_title_from_plain_text(text) ==
  IF PlainFieldSearch(text, 1, TitleKeyPieces) # None
  THEN Stripped(PlainFieldSearch(text, 1, TitleKeyPieces))
  ELSE IF AltTitleSearch(text, 1) # None THEN Stripped(AltTitleSearch(text, 1))
  ELSE None

_extract_company_from_plain_text(text) ==
  IF PlainFieldSearch(text, 1, CompanyKeyPieces) # None
  THEN Stripped(PlainFieldSearch(text, 1, CompanyKeyPieces))
  ELSE IF AltCompanySearch(text, 1) # None THEN Stripped(AltCompanySearch(text, 1))
  ELSE None

\* a variant that searches the whole text for the title and the company
RegexJob_WholeText(text, i, e) ==
  RawJob(OrNone(_extract_title_from_plain_text(text)),
         OrNone(_extract_company_from_plain_text(text)),
         _normalize_link(PyStr(SubSeq(text, i, e - 1))))

\* the body of the loop for the match text[i .. e-1]
RegexJob(text, i, e) ==
  LET window == Slice(text, Max(0, Offset(text, i) - WINDOW_RADIUS),
                            Min(TextLen(text), Offset(text, e) + WINDOW_RADIUS))
  IN RawJob(OrNone(_extract_title_from_plain_text(window)),
            OrNone(_extract_company_from_plain_text(window)),
            _normalize_link(PyStr(SubSeq(text, i, e - 1))))

\* JOB_URL_REGEX.finditer(text) from piece i on
RECURSIVE FindIter(_, _)
FindIter(text, i) ==
  IF i > Len(text) THEN <<>>
  ELSE IF JobUrlAt(text, i)
       THEN <<RegexJob(text, i, UrlEnd(text, i + 4))>> \o FindIter(text, UrlEnd(text, i + 4))
       ELSE FindIter(text, i + 1)

_regex_extract_jobs_from_text(text) == FindIter(text, 1)

(***************************************************************************)
(* The uploaded documents.  A document is the sequence of its <code> and   *)
(* <script> tags, in document order, each with the text it encloses.       *)
(* fault names the extractor that raises on the tag's text (for instance a *)
(* RecursionError on a value nested deeper than the interpreter allows):   *)
(* the exceptions the try/except blocks of the scan loop are there for.    *)
(***************************************************************************)
\* the largest number of <code>/<script> tags of a document
MaxBlocks == 2

Tag(text, fault) == [text |-> text, fault |-> fault]

NumPiece(n) == IF n = 7 THEN "7" ELSE "0"

\* the compact JSON text of a value
RECURSIVE JsonText(_)
RECURSIVE JsonItems(_)
RECURSIVE JsonMembers(_)
JsonItems(items) ==
  IF items = <<>> THEN <<>>
  ELSE JsonText(Head(items)) \o (IF Len(items) > 1 THEN <<",">> ELSE <<>>)
       \o JsonItems(Tail(items))
JsonMembers(kv) ==
  IF kv = <<>> THEN <<>>
  ELSE <<QUOTE, Head(kv)[1], QUOTE, ":">> \o JsonText(Head(kv)[2])
       \o (IF Len(kv) > 1 THEN <<",">> ELSE <<>>) \o JsonMembers(Tail(kv))
JsonText(v) ==
  CASE v.t = "none" -> <<"null">>
    [] v.t = "bool" -> IF v.b THEN <<"true">> ELSE <<"false">>
    [] v.t = "num" -> <<NumPiece(v.n)>>
    [] v.t = "str" -> <<QUOTE>> \o v.s \o <<QUOTE>>
    [] v.t = "list" -> <<"[">> \o JsonItems(v.items) \o <<"]">>
    [] v.t = "dict" -> <<"{">> \o JsonMembers(v.kv) \o <<"}">>

\* the text as it stands in the saved page, quotes written &quot;
HtmlEscape(text) == [i \in 1..Len(text) |-> IF text[i] = QUOTE THEN "&quot;" ELSE text[i]]

Rel1 == <<"/", "jobs/view/1">>
Rel2 == <<"/", "jobs/view/2">>
Abs1 == ORIGIN \o Rel1
Abs2 == ORIGIN \o Rel2

\* a listing node: navigationUrl, and title / companyName when given
Listing(link, title, company) ==
  PyDict(<< <<"navigationUrl", link>> >>
         \o (IF title = None THEN <<>> ELSE << <<"title", title>> >>)
         \o (IF company = None THEN <<>> ELSE << <<"companyName", company>> >>))

Eng == PyStr(<<"Eng">>)
Ops == PyStr(<<"Ops">>)
Acme == PyStr(<<"Acme">>)
Globex == PyStr(<<"Globex">>)

\* one listing under several descriptions
SameListingValues ==
  { Listing(PyStr(Rel1), None, None),
    Listing(PyStr(Rel1), Eng, None),
    Listing(PyStr(Abs1), Ops, None),
    PyDict(<< <<"navigationUrl", PyStr(Rel1)>>,
              <<"titleText", PyDict(<< <<"text", PyStr(<<SP, "Ops", SP>>)>> >>)>>,
              <<"company", PyDict(<< <<"name", Globex>> >>)>> >>) }

\* the shapes a link-bearing field takes
LinkShapeValues ==
  { Listing(PyStr(<<"String">>), Eng, None),
    Listing(PyStr(<<"foo">>), Eng, None),
    Listing(PyStr(<<LABEL, "/", "jobs/view/1">>), Eng, None),
    Listing(PyStr(<<MARKER, "?", "x">>), Eng, None),
    Listing(PyStr(<<SP>>), Eng, None),
    Listing(PyDict(<< <<"url", PyStr(Rel2)>> >>), Eng, None),
    PyDict(<< <<"navigationUrl", PyStr(Rel1)>>, <<"url", PyStr(Rel2)>>,
              <<"title", Eng>> >>),
    PyDict(<< <<"navigationUrl", None>>, <<"jobUrl", PyStr(Rel2)>> >>) }

\* listings under containers, lists and rejected nodes; values without a listing
NestedValues ==
  { PyDict(<< <<"elements", PyList(<< Listing(PyStr(Rel1), None, Acme),
                                      Listing(PyStr(Rel2), Eng, Acme) >>)>> >>),
    PyDict(<< <<"navigationUrl", PyStr(<<"null">>)>>,
              <<"data", Listing(PyStr(Rel1), Eng, None)>> >>),
    PyList(<< Listing(PyStr(Rel1), None, Acme), Listing(PyStr(Rel1), Eng, Globex) >>),
    PyDict(<< <<"foo", PyStr(Abs1)>>, <<"title", Eng>> >>),
    PyDict(<< <<"navigationUrl", PyNum(7)>>,
              <<"data", PyList(<< PyDict(<< <<"navigationUrl",
                                              PyDict(<< <<"foo", PyStr(<<"x">>)>> >>)>>,
                                            <<"wrap", Listing(PyStr(Rel2), Eng, None)>> >>) >>)>>,
              <<"elements", PyList(<< Listing(PyStr(Rel1), None, Acme) >>)>> >>) }

JsonValues == SameListingValues \cup LinkShapeValues \cup NestedValues

\* texts that are not JSON
PlainTexts ==
  { Abs1 \o <<SP, QUOTE, "companyName", QUOTE, ":", SP, QUOTE, "Globex", QUOTE>>,
    <<"Eng", SP, "at", SP, "Acme", SP>> \o Abs2 \o <<"?", "x", ">">> \o Abs1,
    <<QUOTE, "title", QUOTE, ":", QUOTE, "Ops", QUOTE, SP>> \o Abs1 \o <<PAD>> \o Abs1
      \o <<SP, "@", "Globex">>,
    <<"{", QUOTE, "navigationUrl", QUOTE, ":", QUOTE>> \o Rel1 \o <<QUOTE>>,
    <<SP>> }

Tags ==
  { Tag(JsonText(v), "none") : v \in JsonValues }
    \cup { Tag(text, "none") : text \in PlainTexts }
    \cup { Tag(HtmlEscape(JsonText(Listing(PyStr(Rel1), Eng, Acme))), "none"),
           Tag(JsonText(Listing(PyStr(Abs1), Eng, None)), "parse"),
           Tag(JsonText(Listing(PyStr(Abs1), None, Acme)), "both"),
           Tag(Abs2 \o <<SP, "@", SP, "Acme">>, "regex") }

RECURSIVE SeqsUpTo(_, _)
SeqsUpTo(S, n) ==
  IF n = 0 THEN {<<>>}
  ELSE SeqsUpTo(S, n - 1) \cup {Append(q, x) : q \in SeqsUpTo(S, n - 1), x \in S}

Documents == SeqsUpTo(Tags, MaxBlocks)

(***************************************************************************)
(* The state of one server: the jobs table, and the request in progress    *)
(***************************************************************************)
VARIABLES
  pc,              \* where the upload request stands
  candidate_tags,  \* soup.find_all(["code", "script"])
  tag_idx,         \* the number of tags the scan loop has taken
  collected_jobs,  \* the raw candidates, in scan order
  block_log,       \* for every tag taken: what each extractor did
  job_idx,         \* the number of raw candidates the merge loop has taken
  unique_by_link,  \* the dict of the merge loop, in insertion order
  job_objects,     \* the Job objects extract_jobs_from_saved_page returns
  import_idx,      \* the number of jobs the import loop has taken
  inserted_count,  \* JobService.import_jobs_from_parser's counter
  outcome,         \* how the request ended
  db               \* the rows of the jobs table

vars == <<pc, candidate_tags, tag_idx, collected_jobs, block_log, job_idx,
          unique_by_link, job_objects, import_idx, inserted_count, outcome, db>>

\* the result of a call: a value, or an exception
Returned(v) == [raised |-> FALSE, exc |-> "", value |-> v]
Raised(e) == [raised |-> TRUE, exc |-> e, value |-> <<>>]

\* a variant without the try/except: the exception goes on
ExceptToEmpty_Reraise(r) == r

\* try: ... except Exception: jobs = []   (both try blocks of the scan loop)
ExceptToEmpty(r) == IF r.raised THEN Returned(<<>>) ELSE r

\* tag.get_text(separator="", strip=True)
get_text(tag) == Strip(tag.text)

Init ==
  /\ pc = "idle"
  /\ candidate_tags = <<>>
  /\ tag_idx = 0
  /\ collected_jobs = <<>>
  /\ block_log = <<>>
  /\ job_idx = 0
  /\ unique_by_link = <<>>
  /\ job_objects = <<>>
  /\ import_idx = 0
  /\ inserted_count = 0
  /\ outcome = "none"
  /\ db = <<>>

\* POST /upload-linkedin: the parser is built on the uploaded page and
\* extract_jobs_from_saved_page starts
upload_linkedin_file(document) ==
  /\ pc = "idle"
  /\ pc' = "scan"
  /\ candidate_tags' = document
  /\ tag_idx' = 0
  /\ collected_jobs' = <<>>
  /\ block_log' = <<>>
  /\ job_idx' = 0
  /\ unique_by_link' = <<>>
  /\ job_objects' = <<>>
  /\ import_idx' = 0
  /\ inserted_count' = 0
  /\ outcome' = "none"
  /\ UNCHANGED db

\* what the two extractors do on a tag's decoded text
CallJsonExtractor(tag, text) ==
  IF tag.fault \in {"parse", "both"} THEN Raised("Exception")
  ELSE Returned(_try_parse_json_and_extract_jobs(text))

CallRegexExtractor(tag, text) ==
  IF tag.fault \in {"regex", "both"} THEN Raised("Exception")
  ELSE Returned(_regex_extract_jobs_from_text(text))

\* one entry of block_log
LogEntry(skipped, json_ok, structured, regex_ran, regex) ==
  [skipped |-> skipped, json_ok |-> json_ok, structured |-> structured,
   regex_ran |-> regex_ran, regex |-> regex]

\* a variant that runs the regular expression on every text, also after the
\* structured extractor found candidates
ScanBlock_AlwaysRegex(tag) ==
  LET text == get_text(tag)
      unescaped_text == HtmlUnescape(text)
      json_ok == tag.fault \notin {"parse", "both"} /\ json_loads(unescaped_text).ok
      parsed == ExceptToEmpty(CallJsonExtractor(tag, unescaped_text))
      fallback == ExceptToEmpty(CallRegexExtractor(tag, unescaped_text))
  IN IF text = <<>>
     THEN Returned(LogEntry(TRUE, FALSE, <<>>, FALSE, <<>>))
     ELSE IF parsed.raised THEN parsed
     ELSE IF fallback.raised THEN fallback
     ELSE Returned(LogEntry(FALSE, json_ok, parsed.value, TRUE, fallback.value))

\* the body of the scan loop for one tag: the exception that escapes it, if
\* any, and what each extractor contributed
ScanBlock(tag) ==
  LET text == get_text(tag)
      unescaped_text == HtmlUnescape(text)
      json_ok == tag.fault \notin {"parse", "both"} /\ json_loads(unescaped_text).ok
      parsed == ExceptToEmpty(CallJsonExtractor(tag, unescaped_text))
      fallback == ExceptToEmpty(CallRegexExtractor(tag, unescaped_text))
  IN IF text = <<>>
     THEN Returned(LogEntry(TRUE, FALSE, <<>>, FALSE, <<>>))
     ELSE IF parsed.raised THEN parsed
     ELSE IF parsed.value # <<>>
          THEN Returned(LogEntry(FALSE, json_ok, parsed.value, FALSE, <<>>))
     ELSE IF fallback.raised THEN fallback
     ELSE Returned(LogEntry(FALSE, json_ok, <<>>, TRUE, fallback.value))

\* one turn of the loop over candidate_tags
ScanTag ==
  /\ pc = "scan"
  /\ tag_idx < Len(candidate_tags)
  /\ \E block \in {ScanBlock(candidate_tags[tag_idx + 1])} :
        IF block.raised
        THEN /\ pc' = "done"
             /\ outcome' = block.exc
             /\ UNCHANGED <<tag_idx, collected_jobs, block_log>>
        ELSE /\ collected_jobs' = collected_jobs \o block.value.structured \o block.value.regex
             /\ block_log' = Append(block_log, block.value)
             /\ tag_idx' = tag_idx + 1
             /\ UNCHANGED <<pc, outcome>>
  /\ UNCHANGED <<candidate_tags, job_idx, unique_by_link, job_objects, import_idx,
                 inserted_count, db>>

\* the scan loop is over: unique_by_link = {}
BeginDedup ==
  /\ pc = "scan"
  /\ tag_idx = Len(candidate_tags)
  /\ pc' = "dedup"
  /\ unique_by_link' = <<>>
  /\ job_idx' = 0
  /\ UNCHANGED <<candidate_tags, tag_idx, collected_jobs, block_log, job_objects,
                 import_idx, inserted_count, outcome, db>>

(***************************************************************************)
(* The merge loop of extract_jobs_from_saved_page                          *)
(***************************************************************************)
\* a variant without the test for the type-namespace marker
IsPlaceholder_NoMarker(link_clean) == Lower(link_clean) \in {<<"string">>, <<"null">>}

\* link_clean.lower() in ("string", "null") or "com.linkedin.common.Url" in link_clean
IsPlaceholder(link_clean) ==
  \/ Lower(link_clean) \in {<<"string">>, <<"null">>}
  \/ Contains(link_clean, MARKER)

\* a variant that compares the key with the latest entry only
KeyIndex_LatestOnly(unique, key) ==
  IF unique # <<>> /\ unique[Len(unique)].key = key THEN Len(unique) ELSE 0

\* the position of the key in the dict, or 0
KeyIndex(unique, key) ==
  IF \E i \in 1..Len(unique) : unique[i].key = key
  THEN CHOOSE i \in 1..Len(unique) : unique[i].key = key
  ELSE 0

\* a variant in which the latest non-empty value wins
MergeMissingFields_LastWins(existing, job) ==
  LET e1 == IF Truthy(job.title) THEN [existing EXCEPT !.title = job.title] ELSE existing
  IN IF Truthy(job.company) THEN [e1 EXCEPT !.company = job.company] ELSE e1

\* the else branch: fill the fields the existing entry lacks
MergeMissingFields(existing, job) ==
  LET e1 == IF ~Truthy(existing.title) /\ Truthy(job.title)
            THEN [existing EXCEPT !.title = job.title] ELSE existing
  IN IF ~Truthy(e1.company) /\ Truthy(job.company)
     THEN [e1 EXCEPT !.company = job.company] ELSE e1

\* a variant that re-inserts a merged entry at the end of the dict
DedupStep_MoveToEnd(unique, job) ==
  LET link == job.link
  IN IF ~Truthy(link) \/ ~IsStr(link) THEN unique
     ELSE LET link_clean == Strip(link.s)
              key == PyStr(link_clean)
              at == KeyIndex(unique, key)
          IN IF IsPlaceholder(link_clean) THEN unique
             ELSE IF at = 0
                  THEN Append(unique, [key |-> key, job |-> [job EXCEPT !.link = key]])
                  ELSE SubSeq(unique, 1, at - 1) \o SubSeq(unique, at + 1, Len(unique))
                       \o <<[unique[at] EXCEPT !.job = MergeMissingFields(unique[at].job, job)]>>

\* the body of the loop over collected_jobs for one raw candidate
DedupStep(unique, job) ==
  LET link == job.link
  IN IF ~Truthy(link) \/ ~IsStr(link) THEN unique
     ELSE LET link_clean == Strip(link.s)
              key == PyStr(link_clean)
              at == KeyIndex(unique, key)
          IN IF IsPlaceholder(link_clean) THEN unique
             ELSE IF at = 0
                  THEN Append(unique, [key |-> key, job |-> [job EXCEPT !.link = key]])
                  ELSE [unique EXCEPT ![at].job = MergeMissingFields(unique[at].job, job)]

DedupJob ==
  /\ pc = "dedup"
  /\ job_idx < Len(collected_jobs)
  /\ unique_by_link' = DedupStep(unique_by_link, collected_jobs[job_idx + 1])
  /\ job_idx' = job_idx + 1
  /\ UNCHANGED <<pc, candidate_tags, tag_idx, collected_jobs, block_log, job_objects,
                 import_idx, inserted_count, outcome, db>>

(***************************************************************************)
(* The conversion to Job objects, and the return                           *)
(***************************************************************************)
UNTITLED == <<"Untitled">>
UNKNOWN_COMPANY == <<"Unknown company">>

\* Job(title=..., company=..., link=...): id is None until the job is saved
Job(title, company, link) == [id |-> None, title |-> title, company |-> company, link |-> link]

\* job_data.get(field) or "", then .strip() if it is a str else the sentinel
FinalField(value, sentinel) ==
  LET raw == IF Truthy(value) THEN value ELSE PyStr(<<>>)
  IN IF IsStr(raw) THEN PyStr(Strip(raw.s)) ELSE PyStr(sentinel)

\* the body of the loop over unique_by_link.items() for one entry
ConvertEntry(link, job_data) ==
  IF ~Truthy(link) \/ ~IsStr(link) THEN <<>>
  ELSE << Job(FinalField(job_data.title, UNTITLED),
              FinalField(job_data.company, UNKNOWN_COMPANY),
              PyStr(Strip(link.s))) >>

RECURSIVE ConvertAll(_)
ConvertAll(unique) ==
  IF unique = <<>> THEN <<>>
  ELSE ConvertEntry(Head(unique).key, Head(unique).job) \o ConvertAll(Tail(unique))

\* the merge loop is over: build job_objects, return them, and
\* JobService.import_jobs_from_parser starts on them
ConvertJobs ==
  /\ pc = "dedup"
  /\ job_idx = Len(collected_jobs)
  /\ job_objects' = ConvertAll(unique_by_link)
  /\ pc' = "import"
  /\ import_idx' = 0
  /\ inserted_count' = 0
  /\ UNCHANGED <<candidate_tags, tag_idx, collected_jobs, block_log, job_idx,
                 unique_by_link, outcome, db>>

(***************************************************************************)
(* Job.find_job_by_link_or_title, Job.save_to_database and                 *)
(* JobService.import_jobs_from_parser                                      *)
(***************************************************************************)
\* SELECT * FROM jobs WHERE column = value LIMIT 1, as a Job, or None
SelectOne(rows, column, value) ==
  LET hits == {i \in 1..Len(rows) : rows[i][column] = value}
  IN IF hits = {} THEN None ELSE rows[CHOOSE i \in hits : \A j \in hits : i <= j]

\* find_job_by_link_or_title(link_value, title_value), called with the
\* positional arguments args: a call that does not bind both parameters
\* raises TypeError
find_job_by_link_or_title(args, rows) ==
  IF Len(args) # 2 THEN Raised("TypeError")
  ELSE LET link_value == args[1]
           title_value == args[2]
           by_link == SelectOne(rows, "link", link_value)
           by_title == SelectOne(rows, "title", title_value)
       IN IF Truthy(link_value) /\ by_link # None THEN Returned(by_link)
          ELSE Returned(by_title)

\* save_to_database on a job whose id is None: INSERT, id = cursor.lastrowid
save_to_database(job, rows) == Append(rows, [job EXCEPT !.id = PyNum(Len(rows) + 1)])

\* one turn of the loop over parsed_jobs
ImportJob ==
  /\ pc = "import"
  /\ import_idx < Len(job_objects)
  /\ LET parsed_job == job_objects[import_idx + 1]
         existing_job == find_job_by_link_or_title(<<parsed_job.link>>, db)
     IN IF ~Truthy(parsed_job.link) \/ ~IsStr(parsed_job.link)
        THEN /\ import_idx' = import_idx + 1
             /\ UNCHANGED <<pc, job_objects, inserted_count, outcome, db>>
        ELSE IF existing_job.raised
        THEN /\ pc' = "done"
             /\ outcome' = existing_job.exc
             /\ UNCHANGED <<import_idx, job_objects, inserted_count, db>>
        ELSE IF Truthy(existing_job.value)
        THEN /\ import_idx' = import_idx + 1
             /\ UNCHANGED <<pc, job_objects, inserted_count, outcome, db>>
        ELSE /\ db' = save_to_database(parsed_job, db)
             /\ job_objects' = [job_objects EXCEPT ![import_idx + 1].id = PyNum(Len(db) + 1)]
             /\ inserted_count' = inserted_count + 1
             /\ import_idx' = import_idx + 1
             /\ UNCHANGED <<pc, outcome>>
  /\ UNCHANGED <<candidate_tags, tag_idx, collected_jobs, block_log, job_idx,
                 unique_by_link>>

\* return inserted_count, and the controller answers 200 with it
FinishImport ==
  /\ pc = "import"
  /\ import_idx = Len(job_objects)
  /\ pc' = "done"
  /\ outcome' = "imported"
  /\ UNCHANGED <<candidate_tags, tag_idx, collected_jobs, block_log, job_idx,
                 unique_by_link, job_objects, import_idx, inserted_count, db>>

\* the request is over and its objects are dropped; the server waits for the
\* next upload
NextRequest ==
  /\ pc = "done"
  /\ pc' = "idle"
  /\ candidate_tags' = <<>>
  /\ tag_idx' = 0
  /\ collected_jobs' = <<>>
  /\ block_log' = <<>>
  /\ job_idx' = 0
  /\ unique_by_link' = <<>>
  /\ job_objects' = <<>>
  /\ import_idx' = 0
  /\ inserted_count' = 0
  /\ outcome' = "none"
  /\ UNCHANGED db

Next ==
  \/ (pc = "idle" /\ \E document \in Documents : upload_linkedin_file(document))
  \/ ScanTag
  \/ BeginDedup
  \/ DedupJob
  \/ ConvertJobs
  \/ ImportJob
  \/ FinishImport
  \/ NextRequest

Spec == Init /\ [][Next]_vars

(***************************************************************************)
(* Properties                                                              *)
(***************************************************************************)
Range(q) == {q[i] : i \in 1..Len(q)}

\* the extraction has returned
Extracted == pc = "import" \/ (pc = "done" /\ tag_idx = Len(candidate_tags))

\* the scan loop has just taken tag n
JustTaken(n) == pc = "scan" /\ n = tag_idx

\* a raw candidate the merge loop keeps, and the key it is kept under
DropsLink(link_clean) ==
  \/ Lower(link_clean) \in {<<"string">>, <<"null">>}
  \/ Contains(link_clean, MARKER)
Kept(job) == Truthy(job.link) /\ IsStr(job.link) /\ ~DropsLink(Strip(job.link.s))
CleanKey(job) == PyStr(Strip(job.link.s))

\* the raw candidates the merge loop has taken that are kept under key
Sharing(key) ==
  {i \in 1..job_idx : Kept(collected_jobs[i]) /\ CleanKey(collected_jobs[i]) = key}

\* C1: the returned sequence holds at most one record per link: no two
\* emitted records have the same link, however many raw candidates carried it.
C1_OneRecordPerLink ==
  /\ \A i, j \in 1..Len(job_objects) :
       i # j => job_objects[i].link # job_objects[j].link
  /\ \A i, j \in 1..Len(unique_by_link) :
       i # j => unique_by_link[i].key # unique_by_link[j].key

\* three raw candidates carried one link and the result holds two records
C1_Witness ==
  /\ Extracted
  /\ Len(job_objects) = 2
  /\ \E i, j, k \in 1..Len(collected_jobs) :
       /\ i < j /\ j < k
       /\ collected_jobs[i].link = collected_jobs[j].link
       /\ collected_jobs[j].link = collected_jobs[k].link

\* the first non-empty value of a field among the candidates sharing key
FirstFilled(key, field) ==
  LET filled == {i \in Sharing(key) : Truthy(collected_jobs[i][field])}
  IN IF filled = {} THEN None
     ELSE collected_jobs[CHOOSE i \in filled : \A j \in filled : i <= j][field]

\* C2: among the raw candidates sharing a link, taken in scan order, the
\* merged record's title is the first non-empty title and its company the
\* first non-empty company: a filled field is never overwritten, an empty one
\* is filled by the next candidate that carries a value.
C2_FirstNonEmptyWins ==
  /\ \A n \in 1..Len(unique_by_link) :
       /\ unique_by_link[n].job.title = FirstFilled(unique_by_link[n].key, "title")
       /\ unique_by_link[n].job.company = FirstFilled(unique_by_link[n].key, "company")
  /\ \A n \in 1..Len(job_objects) :
       /\ FirstFilled(job_objects[n].link, "title") # None
            => job_objects[n].title = FirstFilled(job_objects[n].link, "title")
       /\ FirstFilled(job_objects[n].link, "company") # None
            => job_objects[n].company = FirstFilled(job_objects[n].link, "company")

\* a link came without a title, then with one, then with another: the
\* record has the second candidate's title
C2_Witness ==
  /\ Extracted
  /\ \E n \in 1..Len(job_objects) : \E i, j, k \in Sharing(job_objects[n].link) :
       /\ i < j /\ j < k
       /\ ~Truthy(collected_jobs[i].title)
       /\ Truthy(collected_jobs[j].title)
       /\ Truthy(collected_jobs[k].title)
       /\ collected_jobs[k].title # collected_jobs[j].title
       /\ job_objects[n].title = collected_jobs[j].title

\* a link of absolute-URL shape: http or https, then a host
AbsoluteUrl(link) ==
  /\ IsStr(link)
  /\ Len(link.s) >= 2
  /\ link.s[1] \in {"https", "http"}
  /\ link.s[2] \in HostPieces

\* C3: every emitted record's link is a non-empty string of absolute-URL
\* shape, also when a link-bearing field held a string that is neither
\* relative nor absolute.
C3_LinksAreAbsolute ==
  \A n \in 1..Len(job_objects) : AbsoluteUrl(job_objects[n].link)

\* the placeholder links: the literal "string" or "null", or the marker inside
PlaceholderLink(link) ==
  link.s = <<"string">> \/ link.s = <<"null">> \/ Contains(link.s, MARKER)

\* C4: a raw candidate whose link is a placeholder is dropped by the merge:
\* no entry and no emitted record has such a link, and what an entry holds
\* comes from candidates that carry the entry's own link.
C4_NoPlaceholderRecord ==
  /\ \A n \in 1..Len(job_objects) : ~PlaceholderLink(job_objects[n].link)
  /\ \A n \in 1..Len(unique_by_link) :
       LET e == unique_by_link[n]
           own == {i \in 1..job_idx : collected_jobs[i].link = e.key}
       IN /\ ~PlaceholderLink(e.key)
          /\ own # {}
          /\ Truthy(e.job.title) => \E i \in own : collected_jobs[i].title = e.job.title
          /\ Truthy(e.job.company) => \E i \in own : collected_jobs[i].company = e.job.company

\* placeholders were among the raw candidates, each with a title, next to a
\* listing without one, and the listing was emitted
C4_Witness ==
  /\ Extracted
  /\ Len(job_objects) = 1
  /\ \E i, j \in 1..Len(collected_jobs) :
       /\ i < j
       /\ collected_jobs[i].link.s = <<"null">>
       /\ Contains(collected_jobs[j].link.s, MARKER)
       /\ Truthy(collected_jobs[j].title)

\* C5: a record for which no candidate supplied a title has the title
\* "Untitled", one for which none supplied a company has the company
\* "Unknown company"; no emitted record has an empty title or company.
C5_DefaultSentinels ==
  \A n \in 1..Len(job_objects) :
    /\ job_objects[n].title.s # <<>>
    /\ job_objects[n].company.s # <<>>
    /\ FirstFilled(job_objects[n].link, "title") = None
         => job_objects[n].title.s = UNTITLED
    /\ FirstFilled(job_objects[n].link, "company") = None
         => job_objects[n].company.s = UNKNOWN_COMPANY

\* the kept links among the first n raw candidates, in first-seen order
RECURSIVE FirstSeen(_)
FirstSeen(n) ==
  IF n = 0 THEN <<>>
  ELSE LET before == FirstSeen(n - 1)
           job == collected_jobs[n]
       IN IF Kept(job) /\ CleanKey(job) \notin Range(before)
          THEN Append(before, CleanKey(job))
          ELSE before

\* what the tags taken so far contributed, tag after tag
RECURSIVE Contributions(_)
Contributions(n) ==
  IF n = 0 THEN <<>>
  ELSE Contributions(n - 1) \o block_log[n].structured \o block_log[n].regex

\* C6: the records appear in the order in which their links were first seen
\* in the concatenation of the per-tag raw candidates, tags in document order
\* and candidates in discovery order; a later candidate for a link already
\* seen does not move its record.
C6_FirstSeenOrder ==
  /\ collected_jobs = Contributions(Len(block_log))
  /\ [n \in 1..Len(unique_by_link) |-> unique_by_link[n].key] = FirstSeen(job_idx)
  /\ Extracted =>
       [n \in 1..Len(job_objects) |-> job_objects[n].link] = FirstSeen(Len(collected_jobs))

\* two links, the first of them seen again after the second
C6_Witness ==
  /\ Extracted
  /\ Len(job_objects) = 2
  /\ \E i, j, k \in 1..Len(collected_jobs) :
       /\ i < j /\ j < k
       /\ collected_jobs[i].link = job_objects[1].link
       /\ collected_jobs[j].link = job_objects[2].link
       /\ collected_jobs[k].link = job_objects[1].link
  /\ Len(block_log) = 2 /\ block_log[1].structured # <<>> /\ block_log[2].regex # <<>>

\* C7: a tag's raw candidates come from one extractor: the structured one
\* when the text parses and the walk finds a candidate, and then the regular
\* expression is not run; otherwise the regular expression alone.  A text
\* that does not parse contributes nothing by the structured path.  (What
\* the walk finds is compared when the scan loop has just taken the tag; an
\* entry of block_log does not change afterwards.)
C7_OnePathPerBlock ==
  /\ Len(block_log) = tag_idx
  /\ \A n \in 1..Len(block_log) :
       LET b == block_log[n]
       IN /\ ~b.json_ok => b.structured = <<>>
          /\ (JustTaken(n) /\ b.json_ok) =>
               b.structured =
                 _recursive_search_for_job_nodes(
                   json_loads(HtmlUnescape(get_text(candidate_tags[n]))).val)
          /\ b.structured # <<>> => ~b.regex_ran /\ b.regex = <<>>
          /\ (b.structured = <<>> /\ ~b.skipped) => b.regex_ran
          /\ ~b.regex_ran => b.regex = <<>>

\* one tag's text did not parse and the regular expression found a listing,
\* the other's parsed to a value in which the walk found one
C7_Witness ==
  /\ Len(block_log) = 2
  /\ ~block_log[1].json_ok /\ block_log[1].regex # <<>>
  /\ block_log[2].json_ok /\ block_log[2].structured # <<>>

\* C8: extract_jobs_from_saved_page returns for every document: an extractor
\* that raises on a tag contributes nothing, the tags after it are still
\* taken, and a document without a kept candidate gives the empty sequence.
C8_ExtractionNeverFails ==
  /\ outcome # "Exception"
  /\ pc = "done" => Extracted
  /\ \A n \in 1..Len(block_log) :
       /\ candidate_tags[n].fault \in {"parse", "both"} => block_log[n].structured = <<>>
       /\ candidate_tags[n].fault \in {"regex", "both"} => block_log[n].regex = <<>>
  /\ Extracted =>
       /\ Len(block_log) = Len(candidate_tags)
       /\ (\A i \in 1..Len(collected_jobs) : ~Kept(collected_jobs[i])) => job_objects = <<>>

\* both extractors raised on the first tag, and the second tag's listing
\* was returned
C8_Witness ==
  /\ Extracted
  /\ Len(candidate_tags) = 2
  /\ candidate_tags[1].fault = "both"
  /\ block_log[2].structured # <<>>
  /\ Len(job_objects) = 1

\* no tag at all, and tags without a kept candidate: the empty sequence
C8_WitnessEmpty ==
  /\ Extracted
  /\ candidate_tags # <<>>
  /\ collected_jobs # <<>>
  /\ job_objects = <<>>

\* C9: import_jobs_from_parser takes the jobs in order, skips a job whose
\* link (or title) is stored already, saves the others and returns the
\* number it inserted: the import of jobs with valid links ends with that
\* count and every one of them stored.
C9_ImportReturnsCount ==
  pc = "done" =>
    /\ outcome = "imported"
    /\ \A n \in 1..Len(job_objects) :
         \E r \in 1..Len(db) : db[r].link = job_objects[n].link
    /\ inserted_count <= Len(job_objects)

\* the link-bearing fields of a map that hold a value, in priority order
RECURSIVE PresentFields(_, _)
PresentFields(node, fields) ==
  IF fields = <<>> THEN <<>>
  ELSE (IF HasKey(node, Head(fields)) /\ Truthy(Item(node, Head(fields)))
        THEN <<Head(fields)>> ELSE <<>>)
       \o PresentFields(node, Tail(fields))

\* a map without a map or a list among its values
FlatMap(node) ==
  IsDict(node) /\ \A i \in 1..Len(node.kv) : ~IsDict(node.kv[i][2]) /\ ~IsList(node.kv[i][2])

\* C10: a map with one or more link-bearing fields emits exactly one raw
\* candidate, whose link is the value of the first such field in priority
\* order (here: for a map without nested values and with strings in its
\* link-bearing fields).
C10_OneCandidatePerNode ==
  \A n \in 1..Len(block_log) :
    LET data == json_loads(HtmlUnescape(get_text(candidate_tags[n])))
        present == PresentFields(data.val, possible_url_fields)
    IN (/\ block_log[n].json_ok
        /\ FlatMap(data.val)
        /\ present # <<>>
        /\ \A f \in Range(present) :
             IsStr(Item(data.val, f)) /\ Strip(Item(data.val, f).s) # <<>>)
       => /\ Len(block_log[n].structured) = 1
          /\ block_log[n].structured[1].link = _normalize_link(Item(data.val, present[1]))

\* the value a tag's text parses to
ParsedValue(n) == json_loads(HtmlUnescape(get_text(candidate_tags[n]))).val

\* the child values of a map or a list
Children(v) ==
  IF IsDict(v) THEN {v.kv[i][2] : i \in 1..Len(v.kv)}
  ELSE IF IsList(v) THEN Range(v.items)
  ELSE {}

\* a value and everything below it, through maps and lists
RECURSIVE Nodes(_)
Nodes(v) == {v} \cup UNION {Nodes(c) : c \in Children(v)}

\* the link-bearing fields a value has (none unless it is a map)
LinkFields(d) == IF IsDict(d) THEN {f \in Range(possible_url_fields) : HasKey(d, f)} ELSE {}

\* a link value the normalizer rejects: not a string, a map without a string
\* under url / navigationUrl / href, or nothing left after trimming
Rejected(link) == ~Truthy(_normalize_link(link))

\* the raw candidate of map d for its link-bearing field f
NodeCandidate(d, f) ==
  RawJob(OrNone(_extract_title_from_node(d)), OrNone(_extract_company_from_node(d)),
         _normalize_link(Item(d, f)))

\* C11: the walk reaches every map of the parsed value, whatever stands above
\* it: every map, at any depth below maps and lists, that holds a usable
\* string in a link-bearing field has its raw candidate in the walk's result,
\* also when a map above it had its link value rejected; and the result holds
\* nothing else: every candidate is that of a map of the value for a field
\* whose value is not rejected, so a map whose link values are all rejected
\* emits none.  (Compared when the scan loop has just taken the tag; an entry
\* of block_log does not change afterwards.)
C11_WalkPastRejected ==
  \A n \in 1..Len(block_log) :
    (JustTaken(n) /\ block_log[n].json_ok) =>
      LET found == Range(block_log[n].structured)
          maps == {d \in Nodes(ParsedValue(n)) : IsDict(d)}
      IN /\ \A d \in maps : \A f \in LinkFields(d) :
              (IsStr(Item(d, f)) /\ ~Rejected(Item(d, f))) => NodeCandidate(d, f) \in found
         /\ \A c \in found : \E d \in maps : \E f \in LinkFields(d) :
              ~Rejected(Item(d, f)) /\ c = NodeCandidate(d, f)

\* a map whose link value is a number holds a list, the list a map whose link
\* value is a map of unsupported shape, and that map a listing: the listing's
\* raw candidate was found, and the two rejected maps emitted nothing
C11_Witness ==
  \E n \in 1..Len(block_log) :
    /\ block_log[n].json_ok
    /\ LET root == ParsedValue(n)
       IN /\ IsDict(root)
          /\ \A f \in LinkFields(root) : Rejected(Item(root, f))
          /\ \E f \in LinkFields(root) : Item(root, f).t = "num"
          /\ \E lst \in Children(root) : \E mid \in Children(lst) : \E leaf \in Children(mid) :
               /\ IsList(lst) /\ IsDict(mid) /\ IsDict(leaf)
               /\ \E f \in LinkFields(mid) : IsDict(Item(mid, f)) /\ Rejected(Item(mid, f))
               /\ \E f \in LinkFields(leaf) :
                    /\ IsStr(Item(leaf, f))
                    /\ NodeCandidate(leaf, f) \in Range(block_log[n].structured)
               /\ \A c \in Range(block_log[n].structured) :
                    \E d \in Nodes(root) \ {root, mid} : \E f \in LinkFields(d) :
                      c = NodeCandidate(d, f)

\* C12: a map whose link-bearing field holds a map with a string under url,
\* navigationUrl or href (in that priority) emits a raw candidate with that
\* string, normalized, as its link and with the title and company of the map
\* itself; only a nested map without such a string makes the map emit none.
C12_NestedMapLink ==
  \A n \in 1..Len(block_log) :
    block_log[n].json_ok =>
      \A d \in Nodes(ParsedValue(n)) : \A f \in LinkFields(d) :
        IsDict(Item(d, f)) =>
          /\ ~Rejected(Item(d, f)) =>
               /\ _normalize_link(Item(d, f))
                    = _normalize_link(FirstStrSubKey(Item(d, f), possible_keys))
               /\ NodeCandidate(d, f) \in Range(block_log[n].structured)
          /\ Rejected(Item(d, f)) => FirstStrSubKey(Item(d, f), possible_keys) = None

\* the pieces that begin with a whitespace or a quote character
BlankOrQuotePieces == {SP, QUOTE, "'"}

\* where the match of the job-URL pattern that starts at piece i ends, the
\* tail running up to the first piece of stops
MatchEnd(text, i, stops) ==
  CHOOSE e \in (i + 4)..(Len(text) + 1) :
    /\ e = Len(text) + 1 \/ text[e] \in stops
    /\ \A k \in (i + 4)..(e - 1) : text[k] \notin stops

\* where the matches of the pattern start: where the URL shape stands and
\* no earlier match runs over it
MatchStarts(text, stops) ==
  {i \in 1..Len(text) :
     /\ JobUrlAt(text, i)
     /\ ~\E k \in 1..(i - 1) : JobUrlAt(text, k) /\ i < MatchEnd(text, k, stops)}

\* the k-th smallest member of a set of numbers
Nth(S, k) == CHOOSE i \in S : Cardinality({j \in S : j < i}) = k - 1

\* the pieces s stand in the text, between the character offsets lo and hi
Occurs(text, s, lo, hi) ==
  \E a \in 1..(Len(text) - Len(s) + 1) :
    /\ SubSeq(text, a, a + Len(s) - 1) = s
    /\ Offset(text, a) >= lo
    /\ Offset(text, a + Len(s)) <= hi

\* what the regular expression contributed on every tag it ran on, when the
\* tail of the URL pattern stops at the pieces of stops: one raw candidate
\* per match, in text order, the link the matched URL normalized, title and
\* company those found in the window from WINDOW_RADIUS characters before
\* the match to WINDOW_RADIUS after it, clipped to the text; no match, no
\* candidate.  (Compared when the scan loop has just taken the tag; an entry
\* of block_log does not change afterwards.)
RegexFollows(stops) ==
  \A n \in 1..Len(block_log) :
    (JustTaken(n) /\ block_log[n].regex_ran /\ candidate_tags[n].fault \notin {"regex", "both"}) =>
      LET text == HtmlUnescape(get_text(candidate_tags[n]))
          starts == MatchStarts(text, stops)
          found == block_log[n].regex
      IN /\ Len(found) = Cardinality(starts)
         /\ \A k \in 1..Len(found) :
              LET i == Nth(starts, k)
                  e == MatchEnd(text, i, stops)
                  lo == Max(0, Offset(text, i) - WINDOW_RADIUS)
                  hi == Min(TextLen(text), Offset(text, e) + WINDOW_RADIUS)
                  window == IF lo = 0 /\ hi = TextLen(text) THEN text ELSE Slice(text, lo, hi)
              IN /\ found[k].link = _normalize_link(PyStr(SubSeq(text, i, e - 1)))
                 /\ found[k].title = OrNone(_extract_title_from_plain_text(window))
                 /\ found[k].company = OrNone(_extract_company_from_plain_text(window))
                 /\ Truthy(found[k].title) => Occurs(text, found[k].title.s, lo, hi)
                 /\ Truthy(found[k].company) => Occurs(text, found[k].company.s, lo, hi)

\* C13 as stated: the regular expression gives one raw candidate per match
\* of the job-URL pattern whose tail is made of non-whitespace, non-quote
\* characters, in text order, with the matched URL normalized as link and
\* title and company searched in the 300-character window around the match.
C13_RegexOnePerMatchAsStated == RegexFollows(BlankOrQuotePieces)

\* C13, amended: the same with the tail of the pattern as the code has it,
\* [^\s"'>]*: it stops at ">" too, so a ">" ends a match and a second URL
\* right after it is a match of its own.
C13_RegexOnePerMatch == RegexFollows(UrlStopPieces)

\* two matches more than a window apart: the first candidate has the title
\* that stands before the first URL, the second has not, and has the company
\* that stands after the second URL
C13_Witness ==
  \E n \in 1..Len(block_log) :
    /\ block_log[n].regex_ran
    /\ Len(block_log[n].regex) = 2
    /\ Contains(get_text(candidate_tags[n]), PAD)
    /\ Truthy(block_log[n].regex[1].title) /\ ~Truthy(block_log[n].regex[1].company)
    /\ ~Truthy(block_log[n].regex[2].title) /\ Truthy(block_log[n].regex[2].company)

\* a ">" between two URLs: two matches, two candidates
C13_WitnessTagEnd ==
  \E n \in 1..Len(block_log) :
    LET text == HtmlUnescape(get_text(candidate_tags[n]))
    IN /\ block_log[n].regex_ran
       /\ Len(block_log[n].regex) = 2
       /\ \E i \in 2..Len(text) : text[i - 1] = ">" /\ JobUrlAt(text, i)

\* the regular expression ran on a text without a match: no candidate
C13_WitnessNoMatch ==
  \E n \in 1..Len(block_log) :
    /\ block_log[n].regex_ran
    /\ candidate_tags[n].fault = "none"
    /\ Len(get_text(candidate_tags[n])) > 1
    /\ block_log[n].regex = <<>>

\* C14: _normalize_link is idempotent on strings: the link of every raw
\* candidate, which is a string _normalize_link returned, is returned
\* unchanged when normalized again, and starts neither with "/" nor with the
\* label "navigationUrl:".
C14_NormalizeIdempotent ==
  \A i \in 1..Len(collected_jobs) :
    LET r == collected_jobs[i].link
    IN IsStr(r) =>
         /\ _normalize_link(r) = r
         /\ ~StartsWith(r.s, "/")
         /\ ~StartsWith(r.s, LABEL)

\* the children a map holds under the container keys, in the order of the
\* container keys, and its other children, in key order
ContainerChildren(node) ==
  LET held == SelectSeq(container_keys, LAMBDA k : HasKey(node, k) /\ Truthy(Item(node, k)))
  IN [i \in 1..Len(held) |-> Item(node, held[i])]
OtherChildren(node) ==
  LET rest == SelectSeq(node.kv, LAMBDA e : e[1] \notin Range(container_keys))
  IN [i \in 1..Len(rest) |-> rest[i][2]]

\* a walker that visits every child once: the map's own candidates, then
\* the children under the container keys, then the other children
RECURSIVE WalkOnce(_)
RECURSIVE WalkOnceEach(_)
WalkOnceEach(values) ==
  IF values = <<>> THEN <<>> ELSE WalkOnce(Head(values)) \o WalkOnceEach(Tail(values))
WalkOnce(node) ==
  IF IsDict(node)
  THEN UrlFieldLoop(node, possible_url_fields)
       \o WalkOnceEach(ContainerChildren(node))
       \o WalkOnceEach(OtherChildren(node))
  ELSE IF IsList(node) THEN WalkOnceEach(node.items)
  ELSE <<>>

\* the merge loop and the conversion, run on a sequence of raw candidates
RECURSIVE MergeFrom(_, _)
MergeFrom(unique, jobs) ==
  IF jobs = <<>> THEN unique ELSE MergeFrom(DedupStep(unique, Head(jobs)), Tail(jobs))
Records(jobs) == ConvertAll(MergeFrom(<<>>, jobs))

\* a sequence without the repeats of its earlier members
RECURSIVE FirstOccurrences(_)
FirstOccurrences(q) ==
  IF q = <<>> THEN <<>>
  ELSE LET before == FirstOccurrences(SubSeq(q, 1, Len(q) - 1))
       IN IF q[Len(q)] \in Range(before) THEN before ELSE Append(before, q[Len(q)])

\* C15: visiting the children under the container keys twice changes
\* nothing after the merge: for every parsed value the walk finds a candidate
\* exactly when the walker that visits every child once does, what the walk
\* adds to the once-walker's candidates are repeats of earlier candidates,
\* and the records made of the walk's candidates (their links, their order,
\* their merged title and company) are those made of the once-walker's.
\* (Compared when the scan loop has just taken the tag; an entry of
\* block_log does not change afterwards.)
C15_TwiceVisitedChangesNothing ==
  \A n \in 1..Len(block_log) :
    (JustTaken(n) /\ block_log[n].json_ok) =>
      LET once == WalkOnce(ParsedValue(n))
      IN /\ block_log[n].structured = <<>> <=> once = <<>>
         /\ FirstOccurrences(block_log[n].structured) = FirstOccurrences(once)
         /\ Records(block_log[n].structured) = Records(once)

\* a value whose listings under "elements" were found twice, after a
\* listing of another link under another key was found in between: the walk
\* has more candidates than the once-walker, and two records were returned
C15_Witness ==
  /\ pc = "import"
  /\ Len(job_objects) = 2
  /\ \E n \in 1..Len(block_log) :
       /\ block_log[n].json_ok
       /\ HasKey(ParsedValue(n), "elements")
       /\ Len(block_log[n].structured) > Len(WalkOnce(ParsedValue(n)))
       /\ \E i, j, k \in 1..Len(block_log[n].structured) :
            /\ i < j /\ j < k
            /\ block_log[n].structured[i] = block_log[n].structured[k]
            /\ block_log[n].structured[i].link # block_log[n].structured[j].link

====
